---- MODULE Spec2Model ----
(***************************************************************************)
(* A model of langchain_community/graph_vectorstores/base.py:              *)
(*   - the sync-to-async bridge of aadd_nodes / atraversal_search /        *)
(*     ammr_traversal_search (an async generator over run_in_executor),    *)
(*   - the content adapters _texts_to_nodes, _documents_to_nodes and       *)
(*     nodes_to_documents (generators over a heap of metadata dicts),      *)
(*   - the search / asearch dispatch on the search_type tag.               *)
(* Each part has its own specification over the shared variables; the      *)
(* variables of the other parts stay at their idle values.                 *)
(***************************************************************************)
EXTENDS Integers, Sequences, FiniteSets, TLC

\* ------------------------------------------------------------------------
\* Bounds of the model
\* ------------------------------------------------------------------------

\* longest underlying sequence a backend operation produces
MaxElems == 3
\* most texts given to _texts_to_nodes (metadatas and ids may hold one more)
MaxTexts == 2
\* most documents given to _documents_to_nodes
MaxDocs == 2

\* documents a backend search finds at most
MaxHits == 2

VARIABLES
    \* ---- sync-to-async bridge ----
    op,         \* the asynchronous variant in use
    elems,      \* what the backend's synchronous operation produces, e1..en
    failStart,  \* the synchronous operation raises when it is called
    failPull,   \* the underlying iterator raises on the pull after this many
                \* elements (-1: it never raises)
    iterPos,    \* elements the underlying iterator has handed out so far
    pc,         \* where the async generator stands
    pool,       \* calls handed to the executor that have not finished
    awaiting,   \* the call whose future the generator awaits
    result,     \* the result set on that future
    consumer,   \* the consumer of the asynchronous sequence
    delivered,  \* the elements the consumer received, in order
    raised,     \* the error the consumer received
    requested,  \* __anext__ calls made by the consumer
    dispatched, \* next(iterator, done) calls handed to the executor
    discarded,  \* results of calls that finished after their awaiter was gone
    \* ---- content adapters ----
    call,       \* the adapter under way: _texts_to_nodes or _documents_to_nodes
    texts,      \* the texts argument
    metadatas,  \* the metadatas argument: None, a list or a lazy iterable of
                \* references to the caller's dicts
    ids,        \* the ids argument: None, a list or a lazy iterable
    docs,       \* the documents argument
    heap,       \* the dict objects: heap[r] is the content of the dict r
    given,      \* what the caller's dicts held when the call was made
    tpos,       \* texts (documents) the adapter's for loop has taken
    mpos,       \* elements taken from metadatas_it
    ipos,       \* elements taken from ids_it
    nodes,      \* the Nodes the adapter has yielded
    status,     \* the adapter generator: running, done or error
    error,      \* the message of the ValueError it raised
    npos,       \* Nodes nodes_to_documents has taken
    outDocs,    \* the Documents nodes_to_documents has yielded
    \* ---- search dispatch ----
    sType,      \* the search_type argument of search / asearch
    sAsync,     \* TRUE when the entry point is asearch
    sKwargs,    \* the keyword arguments of the call
    sStatus,    \* start, called, returned or error
    pending,    \* the method call under way, with its keyword arguments
    invoked,    \* the methods called so far, in order
    backendCalls, \* the calls that reached a search primitive of the backend
    sError,     \* the ValueError raised by search / asearch
    warnings,   \* messages given to logger.warning
    returned,   \* the list the entry point returns to its caller
    ctorArgs,   \* the keyword arguments given to as_retriever
    \* ---- a backend's traversal_search / mmr_traversal_search ----
    gMode,      \* "traversal", "mmr" or "none"
    gStore,     \* the stored nodes: their links and similarity to the query
    gParams,    \* the keyword arguments of the search
    gStatus,    \* "start", "running", "done" or "idle"
    gFrontier,  \* traversal: the ids discovered at the current depth
    gHop,       \* traversal: the depth reached
    gPool,      \* mmr: the candidates in discovery order, with their depth
    gResult,    \* the ids yielded so far, in order
    \* ---- add_texts / aadd_texts ----
    stored,     \* the nodes the backend's add_nodes has taken from the stream
    addResult   \* how the call stands: pending, returned or raised

bridgeVars == <<op, elems, failStart, failPull, iterPos, pc, pool, awaiting,
                result, consumer, delivered, raised, requested, dispatched,
                discarded>>

adapterVars == <<call, texts, metadatas, ids, docs, heap, given, tpos, mpos,
                 ipos, nodes, status, error, npos, outDocs>>

searchVars == <<sType, sAsync, sKwargs, sStatus, pending, invoked,
                backendCalls, sError, warnings, returned, ctorArgs>>

storeVars == <<gMode, gStore, gParams, gStatus, gFrontier, gHop, gPool,
               gResult>>

addVars == <<stored, addResult>>

vars == <<bridgeVars, adapterVars, searchVars, storeVars, addVars>>

\* ------------------------------------------------------------------------
\* Values
\* ------------------------------------------------------------------------

AsyncOps == {"aadd_nodes", "atraversal_search", "ammr_traversal_search"}

Elements == {"d1", "d2"}

NoCall == [kind |-> "none", n |-> 0]
NoResult == [tag |-> "none"]
NoError == [exc |-> "none", pos |-> 0]

Val(v) == [tag |-> "val", v |-> v]
Done == [tag |-> "done"]
Iter == [tag |-> "iter"]
Err(p) == [tag |-> "err", e |-> [exc |-> "BackendError", pos |-> p]]

RECURSIVE SeqsUpTo(_, _)
SeqsUpTo(S, n) ==
    IF n = 0 THEN {<<>>}
    ELSE LET shorter == SeqsUpTo(S, n - 1)
         IN shorter \cup {Append(s, x) : s \in {t \in shorter : Len(t) = n - 1}, x \in S}

IsPrefix(s, t) ==
    /\ Len(s) <= Len(t)
    /\ \A i \in 1..Len(s) : s[i] = t[i]

\* ------------------------------------------------------------------------
\* The backend: a fixed deterministic synchronous operation
\* ------------------------------------------------------------------------

\* self.add_nodes(nodes) / self.traversal_search(query, ...) /
\* self.mmr_traversal_search(query, ...): the call returns an iterable or raises
BackendCall == IF failStart THEN Err(-1) ELSE Iter

\* next(iterator, done) on the iterable the call returned, with pos elements
\* already handed out: the next element, the error, or the done sentinel
IterNext(pos) ==
    IF failPull = pos THEN Err(pos)
    ELSE IF pos < Len(elems) THEN Val(elems[pos + 1])
    ELSE Done

\* the synchronous consumption list(self.traversal_search(...)): the elements
\* collected and how the iteration ended (done, or the error raised)
RECURSIVE SyncCollect(_, _)
SyncCollect(pos, acc) ==
    LET r == IterNext(pos)
    IN IF r.tag = "val" THEN SyncCollect(pos + 1, Append(acc, r.v))
       ELSE [out |-> acc, end |-> r]

SyncRun ==
    IF BackendCall.tag = "err" THEN [out |-> <<>>, end |-> BackendCall]
    ELSE SyncCollect(0, <<>>)

\* ------------------------------------------------------------------------
\* The bridge: async generator of aadd_nodes / atraversal_search /
\* ammr_traversal_search
\* ------------------------------------------------------------------------

BridgeIdle ==
    /\ iterPos = 0
    /\ pc = "created"
    /\ pool = {}
    /\ awaiting = NoCall
    /\ result = NoResult
    /\ consumer = "idle"
    /\ delivered = <<>>
    /\ raised = NoError
    /\ requested = 0
    /\ dispatched = 0
    /\ discarded = 0

AdapterIdle ==
    /\ call = "none"
    /\ texts = <<>>
    /\ metadatas = [kind |-> "none", items |-> <<>>]
    /\ ids = [kind |-> "none", items |-> <<>>]
    /\ docs = <<>>
    /\ heap = <<>>
    /\ given = <<>>
    /\ tpos = 0
    /\ mpos = 0
    /\ ipos = 0
    /\ nodes = <<>>
    /\ status = "running"
    /\ error = ""
    /\ npos = 0
    /\ outDocs = <<>>

NoPending == [method |-> "none", kw |-> <<>>]
NoSearchError == [exc |-> "none", search_type |-> "", allowed |-> <<>>]

SearchIdle ==
    /\ sType = ""
    /\ sAsync = FALSE
    /\ sKwargs = <<>>
    /\ sStatus = "idle"
    /\ pending = NoPending
    /\ invoked = <<>>
    /\ backendCalls = <<>>
    /\ sError = NoSearchError
    /\ warnings = <<>>
    /\ returned = <<>>
    /\ ctorArgs = <<>>

NotAdding == [by |-> "none", state |-> "idle", value |-> <<>>]

AddIdle ==
    /\ stored = <<>>
    /\ addResult = NotAdding

StoreIdle ==
    /\ gMode = "none"
    /\ gStore = <<>>
    /\ gParams = <<>>
    /\ gStatus = "idle"
    /\ gFrontier = {}
    /\ gHop = 0
    /\ gPool = <<>>
    /\ gResult = <<>>

InitBridge ==
    /\ AdapterIdle
    /\ SearchIdle
    /\ StoreIdle
    /\ AddIdle
    /\ op \in AsyncOps
    /\ elems \in SeqsUpTo(Elements, MaxElems)
    /\ failStart \in BOOLEAN
    /\ failPull \in -1..Len(elems)
    /\ BridgeIdle

\* await run_in_executor(None, self.<sync op>, ...): the call goes to the
\* executor and the generator suspends on its future
DispatchStart ==
    /\ pool' = pool \cup {[kind |-> "start", n |-> 0]}
    /\ awaiting' = [kind |-> "start", n |-> 0]
    /\ result' = NoResult
    /\ pc' = "await_start"
    /\ UNCHANGED dispatched

\* doc = await run_in_executor(None, next, iterator, done): one pull goes to
\* the executor and the generator suspends on its future
DispatchNext ==
    /\ pool' = pool \cup {[kind |-> "next", n |-> dispatched + 1]}
    /\ awaiting' = [kind |-> "next", n |-> dispatched + 1]
    /\ result' = NoResult
    /\ pc' = "await_next"
    /\ dispatched' = dispatched + 1

\* The consumer asks for the next element (__anext__): the generator runs
\* from where it stands to its next await.
Request ==
    /\ consumer = "idle"
    /\ pc \in {"created", "yielded"}
    /\ consumer' = "waiting"
    /\ requested' = requested + 1
    /\ IF pc = "created" THEN DispatchStart ELSE DispatchNext
    /\ UNCHANGED <<op, elems, failStart, failPull, iterPos, delivered, raised,
                   discarded>>

\* what the executor's call c computes, and the iterator position after it
RunCall(c) ==
    IF c.kind = "start" THEN [res |-> BackendCall, pos |-> iterPos]
    ELSE LET r == IterNext(iterPos)
         IN [res |-> r, pos |-> IF r.tag = "val" THEN iterPos + 1 ELSE iterPos]

\* A worker runs a call to completion and sets its future; a call whose
\* awaiter is gone still runs, and its result goes nowhere.
WorkerRun ==
    \E c \in pool :
        LET out == RunCall(c)
        IN /\ pool' = pool \ {c}
           /\ iterPos' = out.pos
           /\ IF awaiting = c
              THEN result' = out.res /\ UNCHANGED discarded
              ELSE discarded' = discarded + 1 /\ UNCHANGED result
           /\ UNCHANGED <<op, elems, failStart, failPull, pc, awaiting,
                          consumer, delivered, raised, requested, dispatched>>

\* mutant: the error is caught and the sequence ends normally
SwallowError(r) ==
    /\ pc' = "closed"
    /\ consumer' = "ended"
    /\ awaiting' = NoCall
    /\ result' = NoResult
    /\ UNCHANGED <<pool, delivered, raised, dispatched>>

\* the generator resumes with an error on the awaited future: the error
\* leaves the generator and reaches the consumer's __anext__
RaiseToConsumer(r) ==
    /\ pc' = "failed"
    /\ consumer' = "error"
    /\ raised' = r.e
    /\ awaiting' = NoCall
    /\ result' = NoResult
    /\ UNCHANGED <<pool, delivered, dispatched>>

\* iterator = iter(<result of the call>); done = object(); while True: the
\* first pull is dispatched in the same step
ResumeStart ==
    /\ pc = "await_start"
    /\ result # NoResult
    /\ IF result.tag = "err" THEN RaiseToConsumer(result)
       ELSE DispatchNext /\ UNCHANGED <<consumer, delivered, raised>>
    /\ UNCHANGED <<op, elems, failStart, failPull, iterPos, requested, discarded>>

\* break: the generator ends and the consumer's __anext__ raises
\* StopAsyncIteration
EndOfSequence ==
    /\ pc' = "closed"
    /\ consumer' = "ended"
    /\ awaiting' = NoCall
    /\ result' = NoResult
    /\ UNCHANGED <<pool, delivered, raised, dispatched>>

\* yield doc: the element goes to the consumer and the generator suspends
YieldDoc(v) ==
    /\ pc' = "yielded"
    /\ consumer' = "idle"
    /\ delivered' = Append(delivered, v)
    /\ awaiting' = NoCall
    /\ result' = NoResult
    /\ UNCHANGED <<pool, raised, dispatched>>

\* mutant: the test on the sentinel is inverted
ResumeNextInverted ==
    /\ pc = "await_next"
    /\ result # NoResult
    /\ CASE result.tag = "err" -> RaiseToConsumer(result)
         [] result.tag = "done" -> YieldDoc("d1")
         [] result.tag = "val" -> EndOfSequence
    /\ UNCHANGED <<op, elems, failStart, failPull, iterPos, requested, discarded>>

\* mutant: the generator dispatches the next pull before it yields
ResumeNextPrefetch ==
    /\ pc = "await_next"
    /\ result # NoResult
    /\ CASE result.tag = "err" -> RaiseToConsumer(result)
         [] result.tag = "done" -> EndOfSequence
         [] result.tag = "val" ->
                /\ pc' = "yielded"
                /\ consumer' = "idle"
                /\ delivered' = Append(delivered, result.v)
                /\ pool' = pool \cup {[kind |-> "next", n |-> dispatched + 1]}
                /\ dispatched' = dispatched + 1
                /\ awaiting' = NoCall
                /\ result' = NoResult
                /\ UNCHANGED raised
    /\ UNCHANGED <<op, elems, failStart, failPull, iterPos, requested, discarded>>

\* doc = await ...; if doc is done: break; yield doc
ResumeNext ==
    /\ pc = "await_next"
    /\ result # NoResult
    /\ CASE result.tag = "err" -> RaiseToConsumer(result)
         [] result.tag = "done" -> EndOfSequence
         [] result.tag = "val" -> YieldDoc(result.v)
    /\ UNCHANGED <<op, elems, failStart, failPull, iterPos, requested, discarded>>

\* The consumer stops asking: the generator stays suspended where it is (at
\* its yield, or not started).
StopConsuming ==
    /\ consumer = "idle"
    /\ consumer' = "abandoned"
    /\ UNCHANGED <<op, elems, failStart, failPull, iterPos, pc, pool, awaiting,
                   result, delivered, raised, requested, dispatched, discarded>>

\* mutant: the generator survives the cancellation and goes on
CancelIgnored ==
    /\ consumer = "waiting"
    /\ consumer' = "abandoned"
    /\ UNCHANGED <<op, elems, failStart, failPull, iterPos, pc, pool, awaiting,
                   result, delivered, raised, requested, dispatched, discarded>>

\* The consumer is cancelled while it waits in __anext__: CancelledError is
\* thrown into the generator at its await and ends it. The executor's call is
\* cancelled only if no worker has begun it; a call already running runs on.
Cancel ==
    /\ consumer = "waiting"
    /\ consumer' = "abandoned"
    /\ pc' = "cancelled"
    /\ awaiting' = NoCall
    /\ result' = NoResult
    /\ \/ pool' = pool
       \/ pool' = pool \ {awaiting}
    /\ UNCHANGED <<op, elems, failStart, failPull, iterPos, delivered, raised,
                   requested, dispatched, discarded>>

NextBridge ==
    \/ Request /\ UNCHANGED <<adapterVars, searchVars, storeVars, addVars>>
    \/ WorkerRun /\ UNCHANGED <<adapterVars, searchVars, storeVars, addVars>>
    \/ ResumeStart /\ UNCHANGED <<adapterVars, searchVars, storeVars, addVars>>
    \/ ResumeNext /\ UNCHANGED <<adapterVars, searchVars, storeVars, addVars>>
    \/ StopConsuming /\ UNCHANGED <<adapterVars, searchVars, storeVars, addVars>>
    \/ Cancel /\ UNCHANGED <<adapterVars, searchVars, storeVars, addVars>>

SpecBridge == InitBridge /\ [][NextBridge]_vars

\* The executor runs every call handed to it, the event loop resumes a
\* generator whose future is set, and a consumer that keeps consuming asks
\* again after each element.
FairBridge ==
    /\ WF_vars(Request /\ UNCHANGED <<adapterVars, searchVars, storeVars, addVars>>)
    /\ WF_vars(WorkerRun /\ UNCHANGED <<adapterVars, searchVars, storeVars, addVars>>)
    /\ WF_vars(ResumeStart /\ UNCHANGED <<adapterVars, searchVars, storeVars, addVars>>)
    /\ WF_vars(ResumeNext /\ UNCHANGED <<adapterVars, searchVars, storeVars, addVars>>)

SpecBridgeLive == SpecBridge /\ FairBridge

\* ------------------------------------------------------------------------
\* Claims about the bridge
\* ------------------------------------------------------------------------

\* what the consumer holds is a prefix of e1..en, and at the end of the
\* sequence it is e1..en, the end coming on the request right after en
DeliversSyncSequence ==
    /\ IsPrefix(delivered, SyncRun.out)
    /\ consumer = "ended" =>
          /\ SyncRun.end = Done
          /\ delivered = elems
          /\ delivered = SyncRun.out
          /\ requested = Len(elems) + 1

\* C1: the asynchronous variant delivers exactly what the synchronous
\* operation produces: what the consumer holds is always a prefix of e1..en
\* (nothing dropped, duplicated or reordered); when the sequence ends the
\* consumer holds all of e1..en and the end came on the request right after
\* en; and when the synchronous operation produces e1..en without error, a
\* consumer that keeps consuming does reach that end.
C1_AsyncYieldsSyncSequence ==
    /\ []DeliversSyncSequence
    /\ (SyncRun.end = Done) ~> (consumer \in {"ended", "abandoned"})

C1_Witness ==
    /\ consumer = "ended"
    /\ Len(delivered) = MaxElems
    /\ delivered[1] # delivered[2]

\* C2: an error of the underlying operation reaches the consumer at the
\* position it has synchronously: the consumer holds exactly the elements
\* produced before it, gets that very error on its next request, and never
\* sees a normal end in its place.
C2_ErrorAtSamePosition ==
    /\ consumer = "error" =>
          /\ SyncRun.end.tag = "err"
          /\ raised = SyncRun.end.e
          /\ delivered = SyncRun.out
          /\ requested = Len(delivered) + 1
    /\ SyncRun.end.tag = "err" =>
          /\ consumer # "ended"
          /\ raised \in {NoError, SyncRun.end.e}
          /\ Len(delivered) <= Len(SyncRun.out)
    /\ consumer # "error" => raised = NoError

C2_Witness ==
    /\ consumer = "error"
    /\ Len(delivered) = 2
    /\ Len(elems) > 2
    /\ raised.pos = 2

\* C3: once the consumer has abandoned the sequence, no call is handed to a
\* worker any more and nothing more reaches the consumer; a call in flight may
\* still finish.
C3_NoDispatchAfterAbandon ==
    [][consumer = "abandoned" =>
          /\ consumer' = "abandoned"
          /\ dispatched' = dispatched
          /\ pool' \subseteq pool
          /\ delivered' = delivered
          /\ raised' = raised]_vars

C3_Witness ==
    /\ consumer = "abandoned"
    /\ discarded = 1
    /\ pool = {}
    /\ iterPos = Len(delivered) + 1
    /\ Len(delivered) >= 1

\* C4: the bridge is demand-driven and sequential: at most one call is in
\* flight, pulls are dispatched and elements pulled only as often as the
\* consumer has asked, and a consumer that stopped after j elements has caused
\* j elements to be pulled, or j + 1 if it was cancelled during a request.
C4_DemandDriven ==
    /\ Cardinality(pool) <= 1
    /\ dispatched <= requested
    /\ iterPos <= dispatched
    /\ iterPos <= Len(delivered) + 1
    /\ (consumer = "abandoned" /\ pc # "cancelled") => iterPos = Len(delivered)

C4_Witness ==
    /\ consumer = "abandoned"
    /\ pc = "yielded"
    /\ Len(delivered) = 1
    /\ iterPos = 1
    /\ Len(elems) = MaxElems

\* ------------------------------------------------------------------------
\* The content adapters: values
\* ------------------------------------------------------------------------

\* METADATA_LINKS_KEY
METADATA_LINKS_KEY == "links"

Link(kind, direction, tag) == [kind |-> kind, direction |-> direction, tag |-> tag]

LinkA == Link("hyperlink", "outgoing", "u")
LinkB == Link("kw", "incoming", "v")

\* Python values held in a metadata dict
PyStr(x) == [t |-> "str", v |-> <<x>>]
PyList(items) == [t |-> "list", v |-> items]
PyTuple(items) == [t |-> "tuple", v |-> items]

\* a dict is a function from its keys to its values
EmptyDict == [k \in {} |-> PyStr("")]

\* the metadata dicts a caller passes: no links entry, a links entry that is
\* a list of Link, a links entry that is another iterable of Link
MetaChoices ==
    { EmptyDict,
      [k \in {"source"} |-> PyStr("s")],
      [k \in {"links", "source"} |->
          IF k = "links" THEN PyList(<<LinkA, LinkB>>) ELSE PyStr("s")],
      [k \in {"links"} |-> PyTuple(<<LinkB, LinkA>>)] }

TextAt(i) == <<"text", i>>
IdAt(i) == <<"id", i>>
\* id=None
NoId == <<"None", 0>>

\* an optional argument: None, a list, or a lazy iterable (a generator)
NoArg == [kind |-> "none", items |-> <<>>]
Supplied(arg) == arg.kind # "none"

\* the truth value Python gives the argument in `iter(x) if x else None`: None
\* and the empty list are false, a generator object is always true
Truthy(arg) ==
    \/ arg.kind = "iter"
    \/ arg.kind = "list" /\ Len(arg.items) > 0

\* mutant: the links entry is read and left in the dict
DictGet(d, key, default) ==
    [value |-> IF key \in DOMAIN d THEN d[key] ELSE default, rest |-> d]

\* d.pop(key, default): the value removed, and the dict that remains
DictPop(d, key, default) ==
    [value |-> IF key \in DOMAIN d THEN d[key] ELSE default,
     rest |-> [k \in DOMAIN d \ {key} |-> d[k]]]

\* d[key] = value
DictSet(d, key, value) ==
    [k \in DOMAIN d \cup {key} |-> IF k = key THEN value ELSE d[k]]

\* if not isinstance(links, list): links = list(links)
ToList(value) == IF value.t = "list" THEN value ELSE PyList(value.v)

\* mutant: no copy is taken, the caller's own dict is used
NoCopy(h, r) == [heap |-> h, ref |-> r]

\* d.copy(): a new dict object with the content of the dict r
CopyDict(h, r) == [heap |-> Append(h, h[r]), ref |-> Len(h) + 1]

\* {} : a new empty dict object
NewDict(h) == [heap |-> Append(h, EmptyDict), ref |-> Len(h) + 1]

\* mutant: the iterator is never seen to have more elements
HasNextNever(arg, pos) == FALSE

\* _has_next(iterator): next(iterator, sentinel) is not sentinel
HasNext(arg, pos) == pos < Len(arg.items)

\* links = metadata.pop(METADATA_LINKS_KEY, []); coerced to a list;
\* Node(id=..., metadata=metadata, text=..., links=links), with the dict
\* object m of heap h as its metadata: the heap and the Node that result
MakeNode(h, m, id, text) ==
    LET popped == DictPop(h[m], METADATA_LINKS_KEY, PyList(<<>>))
        links == ToList(popped.value)
    IN [heap |-> [h EXCEPT ![m] = popped.rest],
        node |-> [id |-> id, text |-> text, metadata |-> m, links |-> links.v]]

\* ------------------------------------------------------------------------
\* _texts_to_nodes
\* ------------------------------------------------------------------------

AdapterStart ==
    /\ tpos = 0
    /\ mpos = 0
    /\ ipos = 0
    /\ nodes = <<>>
    /\ status = "running"
    /\ error = ""
    /\ npos = 0
    /\ outDocs = <<>>

Refs(n) == [i \in 1..n |-> i]

InitTexts ==
    /\ call = "_texts_to_nodes"
    /\ \E n \in 0..MaxTexts : texts = [i \in 1..n |-> TextAt(i)]
    /\ given \in SeqsUpTo(MetaChoices, MaxTexts + 1)
    /\ heap = given
    /\ \/ metadatas = NoArg /\ given = <<>>
       \/ \E k \in {"list", "iter"} :
             metadatas = [kind |-> k, items |-> Refs(Len(given))]
    /\ \/ ids = NoArg
       \/ \E k \in {"list", "iter"}, n \in 0..(MaxTexts + 1) :
             ids = [kind |-> k, items |-> [i \in 1..n |-> IdAt(i)]]
    /\ docs = <<>>
    /\ AdapterStart

\* the generator raises ValueError(msg) and is finished
RaiseValueError(msg) ==
    /\ status' = "error"
    /\ error' = msg

\* One resumption of the generator _texts_to_nodes: the body of the for
\* loop up to its yield, or the checks after the loop.
TextsToNodesNext ==
    /\ call = "_texts_to_nodes"
    /\ status = "running"
    /\ IF tpos < Len(texts)
       THEN \* for text in texts:
            /\ tpos' = tpos + 1
            /\ IF Truthy(metadatas) /\ mpos >= Len(metadatas.items)
               THEN \* next(metadatas_it) raises StopIteration
                    /\ RaiseValueError("texts iterable longer than metadatas")
                    /\ UNCHANGED <<heap, mpos, ipos, nodes>>
               ELSE LET made == IF Truthy(metadatas)
                                THEN CopyDict(heap, metadatas.items[mpos + 1])
                                ELSE NewDict(heap)
                    IN /\ mpos' = IF Truthy(metadatas) THEN mpos + 1 ELSE mpos
                       /\ IF Truthy(ids) /\ ipos >= Len(ids.items)
                          THEN \* next(ids_it) raises StopIteration
                               /\ RaiseValueError("texts iterable longer than ids")
                               /\ heap' = made.heap
                               /\ UNCHANGED <<ipos, nodes>>
                          ELSE LET id == IF Truthy(ids) THEN ids.items[ipos + 1] ELSE NoId
                                   out == MakeNode(made.heap, made.ref, id, texts[tpos + 1])
                               IN /\ ipos' = IF Truthy(ids) THEN ipos + 1 ELSE ipos
                                  /\ heap' = out.heap
                                  /\ nodes' = Append(nodes, out.node)
                                  /\ UNCHANGED <<status, error>>
       ELSE \* texts is exhausted
            /\ UNCHANGED <<tpos, heap, mpos, nodes>>
            /\ IF Truthy(ids) /\ HasNext(ids, ipos)
               THEN /\ RaiseValueError("ids iterable longer than texts")
                    /\ ipos' = ipos + 1
               ELSE /\ UNCHANGED ipos
                    /\ IF Truthy(metadatas) /\ HasNext(metadatas, mpos)
                       THEN RaiseValueError("metadatas iterable longer than texts")
                       ELSE status' = "done" /\ UNCHANGED error
    /\ UNCHANGED <<call, texts, metadatas, ids, docs, given, npos, outDocs>>

\* ------------------------------------------------------------------------
\* _documents_to_nodes and nodes_to_documents
\* ------------------------------------------------------------------------

Document(id, page_content, metadata) ==
    [id |-> id, page_content |-> page_content, metadata |-> metadata]

InitDocuments ==
    /\ call = "_documents_to_nodes"
    /\ given \in SeqsUpTo(MetaChoices, MaxDocs)
    /\ heap = given
    /\ \E withId \in [1..Len(given) -> BOOLEAN] :
          docs = [i \in 1..Len(given) |->
                     Document(IF withId[i] THEN IdAt(i) ELSE NoId, TextAt(i), i)]
    /\ texts = <<>>
    /\ metadatas = NoArg
    /\ ids = NoArg
    /\ AdapterStart

\* One resumption of the generator _documents_to_nodes.
DocumentsToNodesNext ==
    /\ call = "_documents_to_nodes"
    /\ status = "running"
    /\ IF tpos < Len(docs)
       THEN LET doc == docs[tpos + 1]
                made == CopyDict(heap, doc.metadata)
                out == MakeNode(made.heap, made.ref, doc.id, doc.page_content)
            IN /\ tpos' = tpos + 1
               /\ heap' = out.heap
               /\ nodes' = Append(nodes, out.node)
               /\ UNCHANGED status
       ELSE /\ status' = "done"
            /\ UNCHANGED <<tpos, heap, nodes>>
    /\ UNCHANGED <<call, texts, metadatas, ids, docs, given, mpos, ipos, error,
                   npos, outDocs>>

\* mutant: kind and tag change places
RebuildLinkSwapped(link) == Link(link.tag, link.direction, link.kind)

\* Link(kind=link.kind, direction=link.direction, tag=link.tag)
RebuildLink(link) == Link(link.kind, link.direction, link.tag)

\* One resumption of the generator nodes_to_documents over the Nodes the
\* adapter has yielded so far.
NodesToDocumentsNext ==
    /\ call \in {"_texts_to_nodes", "_documents_to_nodes"}
    /\ npos < Len(nodes)
    /\ LET node == nodes[npos + 1]
           made == CopyDict(heap, node.metadata)
           links == PyList([i \in 1..Len(node.links) |-> RebuildLink(node.links[i])])
       IN /\ heap' = [made.heap EXCEPT
                         ![made.ref] = DictSet(@, METADATA_LINKS_KEY, links)]
          /\ outDocs' = Append(outDocs, Document(node.id, node.text, made.ref))
          /\ npos' = npos + 1
    /\ UNCHANGED <<call, texts, metadatas, ids, docs, given, tpos, mpos, ipos,
                   nodes, status, error>>

InitAdapter ==
    /\ BridgeIdle
    /\ SearchIdle
    /\ StoreIdle
    /\ AddIdle
    /\ op = "none" /\ elems = <<>> /\ failStart = FALSE /\ failPull = -1
    /\ InitTexts \/ InitDocuments

NextAdapter ==
    \/ TextsToNodesNext /\ UNCHANGED <<bridgeVars, searchVars, storeVars, addVars>>
    \/ DocumentsToNodesNext /\ UNCHANGED <<bridgeVars, searchVars, storeVars, addVars>>
    \/ NodesToDocumentsNext /\ UNCHANGED <<bridgeVars, searchVars, storeVars, addVars>>

SpecAdapter == InitAdapter /\ [][NextAdapter]_vars

\* ------------------------------------------------------------------------
\* Claims about the content adapters
\* ------------------------------------------------------------------------

Finished == status \in {"done", "error"}

\* the links a caller's dict holds, in order (none when it has no entry)
LinksOf(d) == IF METADATA_LINKS_KEY \in DOMAIN d THEN d[METADATA_LINKS_KEY].v ELSE <<>>

WithoutLinks(d) == [k \in DOMAIN d \ {METADATA_LINKS_KEY} |-> d[k]]

EqualLengths ==
    /\ Supplied(metadatas) /\ Len(metadatas.items) = Len(texts)
    /\ Supplied(ids) /\ Len(ids.items) = Len(texts)

\* C5: for texts, metadatas and ids of equal length, _texts_to_nodes raises
\* nothing and yields one Node per text, in input order: Node i has text
\* texts[i], id ids[i], the links of metadatas[i] in their order (none when it
\* has no links entry) and metadatas[i] without the links key as metadata.
C5_OneNodePerText ==
    (call = "_texts_to_nodes" /\ EqualLengths) =>
        /\ status # "error"
        /\ Len(nodes) = tpos
        /\ status = "done" => Len(nodes) = Len(texts)
        /\ \A i \in 1..Len(nodes) :
              /\ nodes[i].text = texts[i]
              /\ nodes[i].id = ids.items[i]
              /\ nodes[i].links = LinksOf(given[metadatas.items[i]])
              /\ heap[nodes[i].metadata] = WithoutLinks(given[metadatas.items[i]])

C5_Witness ==
    /\ call = "_texts_to_nodes"
    /\ EqualLengths
    /\ status = "done"
    /\ Len(nodes) = MaxTexts
    /\ nodes[1].links = <<LinkA, LinkB>>
    /\ nodes[2].links = <<>>
    /\ DOMAIN heap[nodes[1].metadata] = {"source"}

\* C6 (as claimed): when a supplied metadatas (ids) sequence is shorter than
\* texts, whatever its length from 0 on, _texts_to_nodes ends in a
\* ValueError that names texts as longer than a sequence that ran out, and it
\* yields no Node for a text that has no metadata (id).
C6_ShortSequenceRejected ==
    call = "_texts_to_nodes" =>
        /\ (Supplied(metadatas) /\ Len(metadatas.items) < Len(texts)) =>
              /\ Len(nodes) <= Len(metadatas.items)
              /\ Finished =>
                    /\ status = "error"
                    /\ error \in {"texts iterable longer than metadatas",
                                  "texts iterable longer than ids"}
        /\ (Supplied(ids) /\ Len(ids.items) < Len(texts)) =>
              /\ Len(nodes) <= Len(ids.items)
              /\ Finished =>
                    /\ status = "error"
                    /\ error \in {"texts iterable longer than metadatas",
                                  "texts iterable longer than ids"}

Overlong ==
    \/ Supplied(ids) /\ Len(ids.items) > Len(texts)
    \/ Supplied(metadatas) /\ Len(metadatas.items) > Len(texts)

\* the error names a sequence that is longer than texts, after all texts
LongerNamed ==
    /\ tpos = Len(texts)
    /\ Len(nodes) = Len(texts)
    /\ \/ error = "ids iterable longer than texts"
          /\ Supplied(ids) /\ Len(ids.items) > Len(texts)
       \/ error = "metadatas iterable longer than texts"
          /\ Supplied(metadatas) /\ Len(metadatas.items) > Len(texts)

\* the error names texts as longer than a supplied sequence that ran out
ShorterNamed ==
    \/ error = "texts iterable longer than ids"
       /\ Supplied(ids) /\ Len(ids.items) < Len(texts)
    \/ error = "texts iterable longer than metadatas"
       /\ Supplied(metadatas) /\ Len(metadatas.items) < Len(texts)

\* C7 (as claimed): when ids or metadatas is longer than texts, the
\* conversion ends in a ValueError raised after texts is exhausted that names
\* a sequence that really is longer than texts.
C7_Original ==
    (call = "_texts_to_nodes" /\ Overlong /\ Finished) =>
        /\ status = "error"
        /\ LongerNamed

\* C7 (amended): when ids or metadatas is longer than texts, the conversion
\* always ends in a ValueError and never completes normally; the error is
\* raised after texts is exhausted and names a sequence that really is longer
\* than texts, unless the other supplied sequence ran out before texts, in
\* which case the error names texts as longer than that sequence.
C7_OverlongRejected ==
    (call = "_texts_to_nodes" /\ Overlong /\ Finished) =>
        /\ status = "error"
        /\ LongerNamed \/ ShorterNamed

C7_Witness ==
    /\ call = "_texts_to_nodes"
    /\ Len(texts) = 1
    /\ ids.kind = "list" /\ Len(ids.items) = 2
    /\ metadatas.kind = "list" /\ Len(metadatas.items) = 1
    /\ Len(nodes) = 1
    /\ status = "error"
    /\ error = "ids iterable longer than texts"

\* C8: the adapters never change a dict they were handed: at every step of
\* _texts_to_nodes and _documents_to_nodes (up to completion or the error)
\* each caller's metadata dict holds what it held at the call, links entry
\* included, and no step of nodes_to_documents changes the metadata of a Node.
C8_InputsNotMutated ==
    /\ [](\A r \in 1..Len(given) : heap[r] = given[r])
    /\ [][\A i \in 1..Len(nodes) :
             heap'[nodes[i].metadata] = heap[nodes[i].metadata]]_vars

C8_Witness ==
    /\ call = "_texts_to_nodes"
    /\ status = "error"
    /\ Len(nodes) = 2
    /\ npos = 2
    /\ nodes[1].links # <<>>
    /\ nodes[2].links # <<>>
    /\ METADATA_LINKS_KEY \in DOMAIN heap[1]
    /\ METADATA_LINKS_KEY \in DOMAIN heap[2]

LinksAreList(d) ==
    /\ METADATA_LINKS_KEY \in DOMAIN d
    /\ d[METADATA_LINKS_KEY].t = "list"

\* C9: a document whose metadata holds its links as a list of Link comes
\* back from nodes_to_documents(_documents_to_nodes(d)) with the same id, the
\* same page content and the same metadata, the links list in the same order;
\* the documents come back in their order.
C9_RoundTrip ==
    call = "_documents_to_nodes" =>
        /\ Len(outDocs) <= Len(docs)
        /\ \A i \in 1..Len(outDocs) :
              LinksAreList(given[docs[i].metadata]) =>
                  /\ outDocs[i].id = docs[i].id
                  /\ outDocs[i].page_content = docs[i].page_content
                  /\ heap[outDocs[i].metadata] = given[docs[i].metadata]

C9_Witness ==
    /\ call = "_documents_to_nodes"
    /\ status = "done"
    /\ Len(outDocs) = MaxDocs
    /\ docs[1].id # docs[2].id
    /\ \A i \in 1..Len(docs) : LinksAreList(given[docs[i].metadata])
    /\ heap[outDocs[1].metadata][METADATA_LINKS_KEY].v = <<LinkA, LinkB>>

\* ------------------------------------------------------------------------
\* search / asearch and the methods they dispatch to
\* ------------------------------------------------------------------------

\* defaults of the keyword parameters
TraversalDefaultK == 4
TraversalDefaultDepth == 1
MmrTraversalDefaultK == 4
MmrTraversalDefaultDepth == 2
MmrTraversalDefaultFetchK == 100
MmrTraversalDefaultAdjacentK == 10
SimilarityDefaultK == 4
MmrDefaultK == 4
MmrDefaultFetchK == 20

\* the tags a caller may pass: the five of the if/elif chain and some others
SearchTypes ==
    {"similarity", "similarity_score_threshold", "mmr", "traversal",
     "mmr_traversal", "bogus", "MMR", ""}

\* keyword arguments: a function from the names given to their values
Get(kw, key, default) == IF key \in DOMAIN kw THEN kw[key] ELSE default
Without(kw, keys) == [k \in DOMAIN kw \ keys |-> kw[k]]
Arg(key, value) == [k \in {key} |-> value]
Merge(f, g) == [k \in DOMAIN f \cup DOMAIN g |-> IF k \in DOMAIN f THEN f[k] ELSE g[k]]

\* the parameter mappings a caller passes
KwargsChoices ==
    { Merge(Merge(a, b), c) :
        a \in {<<>>, Arg("k", 1)},
        b \in {<<>>, Arg("depth", 0), Arg("depth", 2)},
        c \in {<<>>, Arg("namespace", "ns")} }
    \cup
    { Merge(Merge(a, b), c) :
        a \in {Arg("fetch_k", 7)},
        b \in {<<>>, Arg("lambda_mult", "0.25")},
        c \in {<<>>, Arg("depth", 2), Arg("k", 1)} }

InitSearch ==
    /\ BridgeIdle
    /\ StoreIdle
    /\ AddIdle
    /\ op = "none" /\ elems = <<>> /\ failStart = FALSE /\ failPull = -1
    /\ AdapterIdle
    /\ sType \in SearchTypes
    /\ sAsync \in BOOLEAN
    /\ sKwargs \in KwargsChoices
    /\ sStatus = "start"
    /\ pending = NoPending
    /\ invoked = <<>>
    /\ backendCalls = <<>>
    /\ sError = NoSearchError
    /\ warnings = <<>>
    /\ returned = <<>>
    /\ ctorArgs = <<>>

\* self.<method>(query, **kw)
CallMethod(method, kw) ==
    /\ pending' = [method |-> method, kw |-> kw]
    /\ invoked' = Append(invoked, method)
    /\ sStatus' = "called"

\* raise ValueError(f"search_type of {search_type} not allowed. Expected
\* search_type to be 'similarity', 'similarity_score_threshold', 'mmr',
\* 'traversal', or 'mmr_traversal'.")
SearchTypeError ==
    /\ sStatus' = "error"
    /\ sError' = [exc |-> "ValueError", search_type |-> sType,
                  allowed |-> <<"similarity", "similarity_score_threshold",
                                "mmr", "traversal", "mmr_traversal">>]
    /\ UNCHANGED <<pending, invoked>>

\* mutant: the mmr branch calls the traversing search
SearchMmrCrossed ==
    /\ sStatus = "start"
    /\ ~sAsync
    /\ CASE sType = "similarity" ->
                CallMethod("similarity_search", sKwargs) /\ UNCHANGED sError
         [] sType = "similarity_score_threshold" ->
                CallMethod("similarity_search_with_relevance_scores", sKwargs)
                /\ UNCHANGED sError
         [] sType = "mmr" ->
                CallMethod("mmr_traversal_search", sKwargs) /\ UNCHANGED sError
         [] sType = "traversal" ->
                CallMethod("traversal_search", sKwargs) /\ UNCHANGED sError
         [] sType = "mmr_traversal" ->
                CallMethod("mmr_traversal_search", sKwargs) /\ UNCHANGED sError
         [] OTHER -> SearchTypeError
    /\ UNCHANGED <<sType, sAsync, sKwargs, backendCalls, warnings, returned,
                   ctorArgs>>

\* search(query, search_type, **kwargs)
Search ==
    /\ sStatus = "start"
    /\ ~sAsync
    /\ CASE sType = "similarity" ->
                CallMethod("similarity_search", sKwargs) /\ UNCHANGED sError
         [] sType = "similarity_score_threshold" ->
                CallMethod("similarity_search_with_relevance_scores", sKwargs)
                /\ UNCHANGED sError
         [] sType = "mmr" ->
                CallMethod("max_marginal_relevance_search", sKwargs)
                /\ UNCHANGED sError
         [] sType = "traversal" ->
                CallMethod("traversal_search", sKwargs) /\ UNCHANGED sError
         [] sType = "mmr_traversal" ->
                CallMethod("mmr_traversal_search", sKwargs) /\ UNCHANGED sError
         [] OTHER -> SearchTypeError
    /\ UNCHANGED <<sType, sAsync, sKwargs, backendCalls, warnings, returned,
                   ctorArgs>>

\* asearch(query, search_type, **kwargs)
ASearch ==
    /\ sStatus = "start"
    /\ sAsync
    /\ CASE sType = "similarity" ->
                CallMethod("asimilarity_search", sKwargs) /\ UNCHANGED sError
         [] sType = "similarity_score_threshold" ->
                CallMethod("asimilarity_search_with_relevance_scores", sKwargs)
                /\ UNCHANGED sError
         [] sType = "mmr" ->
                CallMethod("amax_marginal_relevance_search", sKwargs)
                /\ UNCHANGED sError
         [] sType = "traversal" ->
                CallMethod("atraversal_search", sKwargs) /\ UNCHANGED sError
         [] sType = "mmr_traversal" ->
                CallMethod("ammr_traversal_search", sKwargs) /\ UNCHANGED sError
         [] OTHER -> SearchTypeError
    /\ UNCHANGED <<sType, sAsync, sKwargs, backendCalls, warnings, returned,
                   ctorArgs>>

\* mutant: similarity_search leaves the depth to traversal_search's default
SimilaritySearchDefaultDepth ==
    /\ sStatus = "called"
    /\ pending.method = "similarity_search"
    /\ CallMethod("traversal_search",
                  Arg("k", Get(pending.kw, "k", SimilarityDefaultK)))
    /\ UNCHANGED <<sType, sAsync, sKwargs, backendCalls, sError, warnings,
                   returned, ctorArgs>>

\* similarity_search(query, k=4, **kwargs):
\*     return list(self.traversal_search(query, k=k, depth=0))
SimilaritySearch ==
    /\ sStatus = "called"
    /\ pending.method = "similarity_search"
    /\ CallMethod("traversal_search",
                  Merge(Arg("k", Get(pending.kw, "k", SimilarityDefaultK)),
                        Arg("depth", 0)))
    /\ UNCHANGED <<sType, sAsync, sKwargs, backendCalls, sError, warnings,
                   returned, ctorArgs>>

\* asimilarity_search(query, k=4, **kwargs):
\*     return [doc async for doc in self.atraversal_search(query, k=k, depth=0)]
ASimilaritySearch ==
    /\ sStatus = "called"
    /\ pending.method = "asimilarity_search"
    /\ CallMethod("atraversal_search",
                  Merge(Arg("k", Get(pending.kw, "k", SimilarityDefaultK)),
                        Arg("depth", 0)))
    /\ UNCHANGED <<sType, sAsync, sKwargs, backendCalls, sError, warnings,
                   returned, ctorArgs>>

\* mutant: max_marginal_relevance_search hands the caller's depth on
MaxMarginalRelevanceSearchKeepsDepth ==
    /\ sStatus = "called"
    /\ pending.method = "max_marginal_relevance_search"
    /\ warnings' =
          IF Get(pending.kw, "depth", 0) > 0
          THEN Append(warnings, "'mmr' search started with depth > 0")
          ELSE warnings
    /\ CallMethod("mmr_traversal_search",
                  Merge(Arg("k", Get(pending.kw, "k", MmrDefaultK)),
                  Merge(Arg("fetch_k", Get(pending.kw, "fetch_k", MmrDefaultFetchK)),
                  Merge(Arg("lambda_mult", Get(pending.kw, "lambda_mult", "0.5")),
                        Arg("depth", Get(pending.kw, "depth", 0))))))
    /\ UNCHANGED <<sType, sAsync, sKwargs, backendCalls, sError, returned,
                   ctorArgs>>

\* max_marginal_relevance_search(query, k=4, fetch_k=20, lambda_mult=0.5,
\* **kwargs): warns when kwargs holds a depth > 0, then runs
\* mmr_traversal_search(query, k=k, fetch_k=fetch_k, lambda_mult=lambda_mult,
\* depth=0)
MaxMarginalRelevanceSearch ==
    /\ sStatus = "called"
    /\ pending.method = "max_marginal_relevance_search"
    /\ warnings' =
          IF Get(pending.kw, "depth", 0) > 0
          THEN Append(warnings, "'mmr' search started with depth > 0")
          ELSE warnings
    /\ CallMethod("mmr_traversal_search",
                  Merge(Arg("k", Get(pending.kw, "k", MmrDefaultK)),
                  Merge(Arg("fetch_k", Get(pending.kw, "fetch_k", MmrDefaultFetchK)),
                  Merge(Arg("lambda_mult", Get(pending.kw, "lambda_mult", "0.5")),
                        Arg("depth", 0)))))
    /\ UNCHANGED <<sType, sAsync, sKwargs, backendCalls, sError, returned,
                   ctorArgs>>

\* atraversal_search(query, k=4, depth=1, filter=None, **kwargs) runs
\* self.traversal_search(query, k=k, depth=depth, filter=filter, **kwargs)
\* in the executor
ATraversalSearch ==
    /\ sStatus = "called"
    /\ pending.method = "atraversal_search"
    /\ CallMethod("traversal_search",
                  Merge(Arg("k", Get(pending.kw, "k", TraversalDefaultK)),
                  Merge(Arg("depth", Get(pending.kw, "depth", TraversalDefaultDepth)),
                  Merge(Arg("filter", Get(pending.kw, "filter", "None")),
                        Without(pending.kw, {"k", "depth", "filter"})))))
    /\ UNCHANGED <<sType, sAsync, sKwargs, backendCalls, sError, warnings,
                   returned, ctorArgs>>

MmrTraversalParams ==
    {"initial_roots", "k", "depth", "fetch_k", "adjacent_k", "lambda_mult",
     "score_threshold", "filter"}

\* ammr_traversal_search(query, initial_roots=(), k=4, depth=2, fetch_k=100,
\* adjacent_k=10, lambda_mult=0.5, score_threshold=-inf, filter=None,
\* **kwargs) runs self.mmr_traversal_search with all of them in the executor
AMmrTraversalSearch ==
    /\ sStatus = "called"
    /\ pending.method = "ammr_traversal_search"
    /\ CallMethod("mmr_traversal_search",
                  Merge(Arg("initial_roots", Get(pending.kw, "initial_roots", "()")),
                  Merge(Arg("k", Get(pending.kw, "k", MmrTraversalDefaultK)),
                  Merge(Arg("fetch_k", Get(pending.kw, "fetch_k", MmrTraversalDefaultFetchK)),
                  Merge(Arg("adjacent_k", Get(pending.kw, "adjacent_k", MmrTraversalDefaultAdjacentK)),
                  Merge(Arg("depth", Get(pending.kw, "depth", MmrTraversalDefaultDepth)),
                  Merge(Arg("lambda_mult", Get(pending.kw, "lambda_mult", "0.5")),
                  Merge(Arg("score_threshold", Get(pending.kw, "score_threshold", "-inf")),
                  Merge(Arg("filter", Get(pending.kw, "filter", "None")),
                        Without(pending.kw, MmrTraversalParams))))))))))
    /\ UNCHANGED <<sType, sAsync, sKwargs, backendCalls, sError, warnings,
                   returned, ctorArgs>>

\* the search primitives a backend implements, and the searches of the
\* generic vector store base class
BackendSearches ==
    {"traversal_search", "mmr_traversal_search",
     "similarity_search_with_relevance_scores",
     "asimilarity_search_with_relevance_scores",
     "amax_marginal_relevance_search"}

\* the parameters a backend search runs with: the keywords of the call over
\* the defaults of the method's signature
Effective(c) ==
    IF c.method = "traversal_search"
    THEN Merge(c.kw, [k |-> TraversalDefaultK,
                      depth |-> TraversalDefaultDepth, filter |-> "None"])
    ELSE IF c.method = "mmr_traversal_search"
    THEN Merge(c.kw, [k |-> MmrTraversalDefaultK,
                      depth |-> MmrTraversalDefaultDepth,
                      fetch_k |-> MmrTraversalDefaultFetchK,
                      adjacent_k |-> MmrTraversalDefaultAdjacentK,
                      lambda_mult |-> "0.5", score_threshold |-> "-inf",
                      filter |-> "None"])
    ELSE c.kw

\* what the backend produces for a call: documents determined by the method
\* and the parameters it runs with, at most MaxHits of them; the methods
\* "with relevance scores" produce (document, score) pairs
WithScores ==
    {"similarity_search_with_relevance_scores",
     "asimilarity_search_with_relevance_scores"}

HitDoc(c, i) == <<"doc", i, c.method, Effective(c)>>

Produce(c) ==
    LET k == IF "k" \in DOMAIN Effective(c) THEN Effective(c)["k"]
             ELSE SimilarityDefaultK
        n == IF k < MaxHits THEN k ELSE MaxHits
    IN  [i \in 1..n |->
            IF c.method \in WithScores
            THEN <<HitDoc(c, i), <<"score", i>>>>
            ELSE HitDoc(c, i)]

\* list(iterable) and [doc async for doc in ...]: the elements in order
ListOf(s) == [i \in 1..Len(s) |-> s[i]]

\* [doc for doc, _ in docs_and_similarities]
DocsOf(s) == [i \in 1..Len(s) |-> s[i][1]]

\* the backend runs the search it was called with; its result goes back
\* through the callers on the stack to the entry point
BackendSearch ==
    /\ sStatus = "called"
    /\ pending.method \in BackendSearches
    /\ backendCalls' = Append(backendCalls, pending)
    /\ returned' = IF pending.method \in WithScores
                   THEN DocsOf(Produce(pending))
                   ELSE ListOf(Produce(pending))
    /\ pending' = NoPending
    /\ sStatus' = "returned"
    /\ UNCHANGED <<sType, sAsync, sKwargs, invoked, sError, warnings,
                   ctorArgs>>

NextSearch ==
    \/ Search /\ UNCHANGED <<bridgeVars, adapterVars, storeVars, addVars>>
    \/ ASearch /\ UNCHANGED <<bridgeVars, adapterVars, storeVars, addVars>>
    \/ SimilaritySearch /\ UNCHANGED <<bridgeVars, adapterVars, storeVars, addVars>>
    \/ ASimilaritySearch /\ UNCHANGED <<bridgeVars, adapterVars, storeVars, addVars>>
    \/ MaxMarginalRelevanceSearch /\ UNCHANGED <<bridgeVars, adapterVars, storeVars, addVars>>
    \/ ATraversalSearch /\ UNCHANGED <<bridgeVars, adapterVars, storeVars, addVars>>
    \/ AMmrTraversalSearch /\ UNCHANGED <<bridgeVars, adapterVars, storeVars, addVars>>
    \/ BackendSearch /\ UNCHANGED <<bridgeVars, adapterVars, storeVars, addVars>>

SpecSearch == InitSearch /\ [][NextSearch]_vars

\* ------------------------------------------------------------------------
\* GraphVectorStoreRetriever
\* ------------------------------------------------------------------------

\* search_type: str = "traversal"
DefaultSearchType == "traversal"

\* allowed_search_types
AllowedSearchTypes ==
    <<"similarity", "similarity_score_threshold", "mmr", "traversal",
      "mmr_traversal">>

\* the keyword arguments a caller gives as_retriever(**kwargs); the
\* search_type is one the retriever's validation accepts
AsRetrieverChoices ==
    { Merge(a, b) :
        a \in {<<>>} \cup { Arg("search_type", AllowedSearchTypes[i]) :
                               i \in 1..Len(AllowedSearchTypes) },
        b \in {<<>>} \cup { Arg("search_kwargs", kw) : kw \in KwargsChoices } }

\* as_retriever: GraphVectorStoreRetriever(vectorstore=self, **kwargs), the
\* fields not given taking their defaults
InitRetriever ==
    /\ BridgeIdle
    /\ StoreIdle
    /\ AddIdle
    /\ op = "none" /\ elems = <<>> /\ failStart = FALSE /\ failPull = -1
    /\ AdapterIdle
    /\ \E kwargs \in AsRetrieverChoices :
          /\ ctorArgs = Merge(Arg("vectorstore", "self"), kwargs)
          /\ sType = Get(kwargs, "search_type", DefaultSearchType)
          /\ sKwargs = Get(kwargs, "search_kwargs", <<>>)
    /\ sAsync \in BOOLEAN
    /\ sStatus = "retrieve"
    /\ pending = NoPending
    /\ invoked = <<>>
    /\ backendCalls = <<>>
    /\ sError = NoSearchError
    /\ warnings = <<>>
    /\ returned = <<>>

\* mutant: only the tag "traversal" is handled locally
GetRelevantDocumentsTraversalOnly ==
    /\ sStatus = "retrieve"
    /\ ~sAsync
    /\ CASE sType = "traversal" -> CallMethod("traversal_search", sKwargs)
         [] OTHER ->
                CallMethod("VectorStoreRetriever._get_relevant_documents",
                           Arg("run_manager", "run_manager"))
    /\ UNCHANGED <<sType, sAsync, sKwargs, backendCalls, sError, warnings,
                   returned, ctorArgs>>

\* _get_relevant_documents(query, run_manager=run_manager)
GetRelevantDocuments ==
    /\ sStatus = "retrieve"
    /\ ~sAsync
    /\ CASE sType = "traversal" -> CallMethod("traversal_search", sKwargs)
         [] sType = "mmr_traversal" ->
                CallMethod("mmr_traversal_search", sKwargs)
         [] OTHER ->
                CallMethod("VectorStoreRetriever._get_relevant_documents",
                           Arg("run_manager", "run_manager"))
    /\ UNCHANGED <<sType, sAsync, sKwargs, backendCalls, sError, warnings,
                   returned, ctorArgs>>

\* _aget_relevant_documents(query, run_manager=run_manager)
AGetRelevantDocuments ==
    /\ sStatus = "retrieve"
    /\ sAsync
    /\ CASE sType = "traversal" -> CallMethod("atraversal_search", sKwargs)
         [] sType = "mmr_traversal" ->
                CallMethod("ammr_traversal_search", sKwargs)
         [] OTHER ->
                CallMethod("VectorStoreRetriever._aget_relevant_documents",
                           Arg("run_manager", "run_manager"))
    /\ UNCHANGED <<sType, sAsync, sKwargs, backendCalls, sError, warnings,
                   returned, ctorArgs>>

\* the generic retriever the other tags are delegated to: it runs the
\* store's similarity, threshold or MMR search with self.search_kwargs
BaseGetRelevantDocuments ==
    /\ sStatus = "called"
    /\ pending.method = "VectorStoreRetriever._get_relevant_documents"
    /\ CASE sType = "similarity" -> CallMethod("similarity_search", sKwargs)
         [] sType = "similarity_score_threshold" ->
                CallMethod("similarity_search_with_relevance_scores", sKwargs)
         [] sType = "mmr" ->
                CallMethod("max_marginal_relevance_search", sKwargs)
    /\ UNCHANGED <<sType, sAsync, sKwargs, backendCalls, sError, warnings,
                   returned, ctorArgs>>

BaseAGetRelevantDocuments ==
    /\ sStatus = "called"
    /\ pending.method = "VectorStoreRetriever._aget_relevant_documents"
    /\ CASE sType = "similarity" -> CallMethod("asimilarity_search", sKwargs)
         [] sType = "similarity_score_threshold" ->
                CallMethod("asimilarity_search_with_relevance_scores", sKwargs)
         [] sType = "mmr" ->
                CallMethod("amax_marginal_relevance_search", sKwargs)
    /\ UNCHANGED <<sType, sAsync, sKwargs, backendCalls, sError, warnings,
                   returned, ctorArgs>>

NextRetriever ==
    \/ GetRelevantDocuments /\ UNCHANGED <<bridgeVars, adapterVars, storeVars, addVars>>
    \/ AGetRelevantDocuments /\ UNCHANGED <<bridgeVars, adapterVars, storeVars, addVars>>
    \/ BaseGetRelevantDocuments /\ UNCHANGED <<bridgeVars, adapterVars, storeVars, addVars>>
    \/ BaseAGetRelevantDocuments /\ UNCHANGED <<bridgeVars, adapterVars, storeVars, addVars>>
    \/ SimilaritySearch /\ UNCHANGED <<bridgeVars, adapterVars, storeVars, addVars>>
    \/ ASimilaritySearch /\ UNCHANGED <<bridgeVars, adapterVars, storeVars, addVars>>
    \/ MaxMarginalRelevanceSearch /\ UNCHANGED <<bridgeVars, adapterVars, storeVars, addVars>>
    \/ ATraversalSearch /\ UNCHANGED <<bridgeVars, adapterVars, storeVars, addVars>>
    \/ AMmrTraversalSearch /\ UNCHANGED <<bridgeVars, adapterVars, storeVars, addVars>>
    \/ BackendSearch /\ UNCHANGED <<bridgeVars, adapterVars, storeVars, addVars>>

SpecRetriever == InitRetriever /\ [][NextRetriever]_vars

\* ------------------------------------------------------------------------
\* Claims about the search dispatch
\* ------------------------------------------------------------------------

AllowedTags ==
    {"similarity", "similarity_score_threshold", "mmr", "traversal",
     "mmr_traversal"}

\* the search method of the store that belongs to a tag
OwnMethod(tag) ==
    CASE tag = "similarity" -> "similarity_search"
      [] tag = "similarity_score_threshold" -> "similarity_search_with_relevance_scores"
      [] tag = "mmr" -> "max_marginal_relevance_search"
      [] tag = "traversal" -> "traversal_search"
      [] tag = "mmr_traversal" -> "mmr_traversal_search"

AsyncName(method) ==
    CASE method = "similarity_search" -> "asimilarity_search"
      [] method = "similarity_search_with_relevance_scores" ->
             "asimilarity_search_with_relevance_scores"
      [] method = "max_marginal_relevance_search" -> "amax_marginal_relevance_search"
      [] method = "traversal_search" -> "atraversal_search"
      [] method = "mmr_traversal_search" -> "ammr_traversal_search"

SeqRange(q) == {q[i] : i \in 1..Len(q)}

\* C10: search and asearch dispatch on the five tags, each tag calling its
\* own search method first and never failing on the tag; any other tag ends in
\* a ValueError whose message lists the five allowed tags, with no method
\* called and no search reaching the backend.
C10_ClosedDispatch ==
    sStatus \in {"called", "returned", "error"} =>
        /\ sType \in AllowedTags =>
              /\ sStatus # "error"
              /\ sError = NoSearchError
              /\ invoked[1] = IF sAsync THEN AsyncName(OwnMethod(sType))
                              ELSE OwnMethod(sType)
        /\ sType \notin AllowedTags =>
              /\ sStatus = "error"
              /\ sError.exc = "ValueError"
              /\ sError.search_type = sType
              /\ SeqRange(sError.allowed) = AllowedTags
              /\ Len(sError.allowed) = Cardinality(AllowedTags)
              /\ invoked = <<>>
              /\ backendCalls = <<>>

C10_Witness ==
    /\ sType = "bogus"
    /\ sStatus = "error"
    /\ sError.allowed[Len(sError.allowed)] = "mmr_traversal"

\* what traversal_search(query, k=k, depth=0) produces
DepthZeroTraversal(k) ==
    ListOf(Produce([method |-> "traversal_search",
                    kw |-> [k |-> k, depth |-> 0]]))

\* C11: similarity_search and asimilarity_search return exactly the elements
\* that traversal_search(query, k=k, depth=0) produces, in the same order,
\* and run no other backend search.
C11_SimilarityIsDepthZeroTraversal ==
    (sType = "similarity" /\ sStatus = "returned") =>
        /\ Len(backendCalls) = 1
        /\ backendCalls[1].method = "traversal_search"
        /\ Effective(backendCalls[1]).depth = 0
        /\ returned = DepthZeroTraversal(Get(sKwargs, "k", SimilarityDefaultK))

C11_Witness ==
    /\ sType = "similarity"
    /\ sAsync
    /\ sStatus = "returned"
    /\ Get(sKwargs, "depth", 0) = 2
    /\ Get(sKwargs, "k", 0) = 1
    /\ Len(returned) = 1
    /\ invoked = <<"asimilarity_search", "atraversal_search",
                   "traversal_search">>

\* the call max_marginal_relevance_search makes for the caller's keywords
MmrDepthZeroCall(kw) ==
    [method |-> "mmr_traversal_search",
     kw |-> [k |-> Get(kw, "k", MmrDefaultK),
             fetch_k |-> Get(kw, "fetch_k", MmrDefaultFetchK),
             lambda_mult |-> Get(kw, "lambda_mult", "0.5"),
             depth |-> 0]]

\* C12: max_marginal_relevance_search never fails on the depth it is given:
\* for every depth it runs mmr_traversal_search once, with depth 0 and the
\* caller's k, fetch_k and lambda_mult, and returns its result; it logs a
\* warning exactly when the depth given is greater than 0.
C12_MmrForcesDepthZero ==
    (sType = "mmr" /\ ~sAsync) =>
        /\ sStatus # "error"
        /\ sStatus = "returned" =>
              /\ backendCalls = <<MmrDepthZeroCall(sKwargs)>>
              /\ returned = ListOf(Produce(MmrDepthZeroCall(sKwargs)))
              /\ Len(warnings) = IF Get(sKwargs, "depth", 0) > 0 THEN 1 ELSE 0

C12_Witness ==
    /\ sType = "mmr"
    /\ ~sAsync
    /\ sStatus = "returned"
    /\ Get(sKwargs, "depth", 0) = 2
    /\ Get(sKwargs, "fetch_k", 0) = 7
    /\ warnings # <<>>
    /\ backendCalls[1].kw.depth = 0
    /\ backendCalls[1].kw.fetch_k = 7

GraphAwareTags == {"traversal", "mmr_traversal"}

\* the method of the store a graph-aware tag is routed to
RoutedMethod ==
    IF sAsync THEN AsyncName(OwnMethod(sType)) ELSE OwnMethod(sType)

BaseRetrieverMethods ==
    {"VectorStoreRetriever._get_relevant_documents",
     "VectorStoreRetriever._aget_relevant_documents"}

\* C13: a retriever whose search_type is "traversal" or "mmr_traversal"
\* calls the store's traversal_search or mmr_traversal_search (their async
\* forms when retrieving asynchronously) directly, with exactly its
\* search_kwargs, and returns what the search produces; for every other
\* allowed tag its first call is the generic base retriever's, not a
\* graph-aware search. A retriever built without a search_type is a
\* "traversal" retriever.
C13_RetrieverRouting ==
    ("vectorstore" \in DOMAIN ctorArgs /\ sStatus \in {"called", "returned"}) =>
        /\ "search_type" \notin DOMAIN ctorArgs =>
               invoked[1] \in {"traversal_search", "atraversal_search"}
        /\ sType \in GraphAwareTags =>
               /\ invoked[1] = RoutedMethod
               /\ (sStatus = "called" /\ Len(invoked) = 1) =>
                      pending.kw = sKwargs
               /\ (~sAsync /\ sStatus = "returned") =>
                      /\ backendCalls =
                            <<[method |-> OwnMethod(sType), kw |-> sKwargs]>>
                      /\ returned = ListOf(Produce(backendCalls[1]))
        /\ sType \notin GraphAwareTags =>
               /\ invoked[1] \in BaseRetrieverMethods
               /\ (sStatus = "called" /\ Len(invoked) = 1) =>
                      pending.kw = Arg("run_manager", "run_manager")

C13_Witness ==
    /\ "vectorstore" \in DOMAIN ctorArgs
    /\ "search_type" \notin DOMAIN ctorArgs
    /\ ~sAsync
    /\ sStatus = "returned"
    /\ invoked = <<"traversal_search">>
    /\ "namespace" \in DOMAIN sKwargs
    /\ backendCalls[1].kw = sKwargs
    /\ returned # <<>>

\* the keys of the parameter mapping the search methods name themselves
RecognizedKeys ==
    {"k", "depth", "fetch_k", "adjacent_k", "lambda_mult", "score_threshold",
     "filter", "initial_roots"}

\* C14: for every allowed search_type, each key of the kwargs given to
\* search / asearch that is not a recognized key reaches the backend search
\* the call ends in, with the value the caller gave.
C14_UnrecognizedKeysPassedThrough ==
    (sType \in AllowedTags /\ sStatus = "returned") =>
        \A key \in DOMAIN sKwargs \ RecognizedKeys :
            /\ Len(backendCalls) = 1
            /\ key \in DOMAIN backendCalls[1].kw
            /\ backendCalls[1].kw[key] = sKwargs[key]

\* ------------------------------------------------------------------------
\* traversal_search and mmr_traversal_search of a backend
\*
\* Both methods are abstract in GraphVectorStore; the steps below follow
\* their documented contract.
\* ------------------------------------------------------------------------

\* most nodes asked of the initial search of traversal_search
MaxK == 2
\* deepest traversal asked of traversal_search
MaxDepth == 2

\* the ids of the stored nodes, in the order the store holds them
NodeIds == <<"A", "B", "C">>

IdSet == {NodeIds[i] : i \in 1..Len(NodeIds)}

PosOf(id) == CHOOSE i \in 1..Len(NodeIds) : NodeIds[i] = id

\* the links a stored node carries
LinkMenu ==
    { {},
      {Link("hyperlink", "outgoing", "u")},
      {Link("hyperlink", "incoming", "u")},
      {Link("hyperlink", "bidirectional", "u")},
      {Link("hyperlink", "incoming", "u"), Link("hyperlink", "outgoing", "v")},
      {Link("hyperlink", "incoming", "v")},
      {Link("kw", "incoming", "u")} }

\* similarity of a stored node to the query
SimValues == {1, 2}

\* Edges exist from nodes with an outgoing link to nodes with a matching
\* incoming link; a bidirectional link counts as both
EdgeIgnoringKind(st, a, b) ==
    \E la \in st.links[a], lb \in st.links[b] :
        /\ la.tag = lb.tag
        /\ la.direction \in {"outgoing", "bidirectional"}
        /\ lb.direction \in {"incoming", "bidirectional"}

Edge(st, a, b) ==
    \E la \in st.links[a], lb \in st.links[b] :
        /\ la.kind = lb.kind
        /\ la.tag = lb.tag
        /\ la.direction \in {"outgoing", "bidirectional"}
        /\ lb.direction \in {"incoming", "bidirectional"}

\* the nodes an edge leads to from a node of S
Adjacent(st, S) == {b \in IdSet : \E a \in S : Edge(st, a, b)}

\* the place of a node in the similarity ranking: more similar first, equal
\* similarity in the store's order
RankOf(st, id) ==
    1 + Cardinality({j \in IdSet :
                        \/ st.sim[j] > st.sim[id]
                        \/ st.sim[j] = st.sim[id] /\ PosOf(j) < PosOf(id)})

Ranked(st) == [r \in 1..Len(NodeIds) |-> CHOOSE id \in IdSet : RankOf(st, id) = r]

\* the first n elements of a sequence
Take(q, n) == SubSeq(q, 1, IF n < Len(q) THEN n ELSE Len(q))

\* the similarity search: the k most similar nodes
TopK(st, k) == Take(Ranked(st), k)

\* the nodes of S, most similar first
BySimilarity(st, S) == SelectSeq(Ranked(st), LAMBDA id : id \in S)

InitTraversal ==
    /\ gMode = "traversal"
    /\ gStore \in [links : [IdSet -> LinkMenu], sim : [IdSet -> SimValues]]
    /\ gParams \in [k : 1..MaxK, depth : 0..MaxDepth]
    /\ gStatus = "start"
    /\ gFrontier = {}
    /\ gHop = 0
    /\ gPool = <<>>
    /\ gResult = <<>>

\* First, k nodes are retrieved using a search for the query string.
TraversalStart ==
    /\ gMode = "traversal"
    /\ gStatus = "start"
    /\ gResult' = TopK(gStore, gParams.k)
    /\ gFrontier' = SeqRange(TopK(gStore, gParams.k))
    /\ gHop' = 0
    /\ gStatus' = "running"
    /\ UNCHANGED <<gMode, gStore, gParams, gPool>>

\* mutant: the expansion yields every adjacent node, visited or not
TraversalExpandRevisits ==
    /\ gMode = "traversal"
    /\ gStatus = "running"
    /\ gHop < gParams.depth
    /\ gFrontier # {}
    /\ LET found == Adjacent(gStore, gFrontier)
       IN  /\ gResult' = gResult \o BySimilarity(gStore, found)
           /\ gFrontier' = found \ SeqRange(gResult)
    /\ gHop' = gHop + 1
    /\ UNCHANGED <<gMode, gStore, gParams, gStatus, gPool>>

\* Then, additional nodes are discovered up to the given depth from those
\* starting nodes: one more hop along the edges, leaving out the nodes
\* already yielded
TraversalExpand ==
    /\ gMode = "traversal"
    /\ gStatus = "running"
    /\ gHop < gParams.depth
    /\ gFrontier # {}
    /\ LET found == Adjacent(gStore, gFrontier) \ SeqRange(gResult)
       IN  /\ gResult' = gResult \o BySimilarity(gStore, found)
           /\ gFrontier' = found
    /\ gHop' = gHop + 1
    /\ UNCHANGED <<gMode, gStore, gParams, gStatus, gPool>>

\* the depth is reached or no node was discovered at the last hop
TraversalEnd ==
    /\ gMode = "traversal"
    /\ gStatus = "running"
    /\ gHop = gParams.depth \/ gFrontier = {}
    /\ gStatus' = "done"
    /\ UNCHANGED <<gMode, gStore, gParams, gFrontier, gHop, gPool, gResult>>

\* the links a stored node carries in the stores searched by
\* mmr_traversal_search
MmrLinkMenu ==
    { {},
      {Link("hyperlink", "outgoing", "u")},
      {Link("hyperlink", "incoming", "u")},
      {Link("hyperlink", "bidirectional", "u")} }

\* score_threshold: float = float("-inf"), below every similarity
NegInf == -1

\* fetch_k and initial_roots given together
MmrSeeds ==
    { [fetch_k |-> 1, initial_roots |-> <<>>],
      [fetch_k |-> 3, initial_roots |-> <<>>],
      [fetch_k |-> 0, initial_roots |-> <<"C">>],
      [fetch_k |-> 1, initial_roots |-> <<"C">>] }

\* lambda_mult is held in halves: 1 is 0.5 and 2 is 1.0
InitMmr ==
    /\ gMode = "mmr"
    /\ gStore \in [links : [IdSet -> MmrLinkMenu], sim : [IdSet -> SimValues]]
    /\ \E seed \in MmrSeeds, k \in 1..MaxK, depth \in 0..MaxDepth,
          adjacent_k \in {1, 10}, lambda_mult \in {1, 2},
          score_threshold \in {NegInf, 2} :
          gParams = [initial_roots |-> seed.initial_roots, k |-> k,
                     depth |-> depth, fetch_k |-> seed.fetch_k,
                     adjacent_k |-> adjacent_k, lambda_mult |-> lambda_mult,
                     score_threshold |-> score_threshold]
    /\ gStatus = "start"
    /\ gFrontier = {}
    /\ gHop = 0
    /\ gPool = <<>>
    /\ gResult = <<>>

\* the found of the candidates discovered so far
Discovered(cands) == {cands[i].id : i \in 1..Len(cands)}

\* new candidates join the pool at depth d, in order; an id discovered
\* before keeps its first entry
RECURSIVE AddCandidates(_, _, _)
AddCandidates(cands, found, d) ==
    IF found = <<>> THEN cands
    ELSE AddCandidates(IF Head(found) \in Discovered(cands) THEN cands
                       ELSE Append(cands, [id |-> Head(found), depth |-> d]),
                       Tail(found), d)

\* the top adjacent_k nodes adjacent to a node
TopAdjacent(st, a, n) == Take(BySimilarity(st, Adjacent(st, {a})), n)

\* the top adjacent_k nodes adjacent to each initial root join the pool
RECURSIVE AddNeighborhoods(_, _, _, _)
AddNeighborhoods(st, cands, roots, n) ==
    IF roots = <<>> THEN cands
    ELSE AddNeighborhoods(st, AddCandidates(cands, TopAdjacent(st, Head(roots), n), 0),
                          Tail(roots), n)

\* the top fetch_k results by similarity to the question, then the
\* neighborhoods of the initial roots
InitialPool(st, p) ==
    AddNeighborhoods(st, AddCandidates(<<>>, TopK(st, p.fetch_k), 0),
                     p.initial_roots, p.adjacent_k)

\* similarity of two stored nodes: nodes equally similar to the query are
\* the more similar to each other
NodeSim(st, a, b) == IF st.sim[a] = st.sim[b] THEN 2 ELSE 1

\* max_similarity(candidate, already_selected), 0 when nothing is selected
Redundancy(st, c, selected) ==
    IF \E i \in 1..Len(selected) : NodeSim(st, c, selected[i]) = 2 THEN 2
    ELSE IF selected # <<>> THEN 1
    ELSE 0

\* lambda_mult * similarity(query, c) - (1 - lambda_mult) * redundancy, in
\* halves
MmrScore(st, p, c, selected) ==
    p.lambda_mult * st.sim[c]
        - (2 - p.lambda_mult) * Redundancy(st, c, selected)

\* mutant: every unselected candidate may be chosen
EligibleAnyScore(st, p, cands, selected) ==
    {i \in 1..Len(cands) : cands[i].id \notin SeqRange(selected)}

\* the unselected candidates that may be chosen: only documents with a score
\* greater than or equal to score_threshold
Eligible(st, p, cands, selected) ==
    {i \in 1..Len(cands) :
        /\ cands[i].id \notin SeqRange(selected)
        /\ st.sim[cands[i].id] >= p.score_threshold}

\* the candidate of the highest score, the first discovered among equals
Best(st, p, cands, selected) ==
    LET E == Eligible(st, p, cands, selected)
        score(i) == MmrScore(st, p, cands[i].id, selected)
    IN  CHOOSE i \in E :
            \A j \in E : score(i) > score(j) \/ (score(i) = score(j) /\ i <= j)

MmrStart ==
    /\ gMode = "mmr"
    /\ gStatus = "start"
    /\ gPool' = InitialPool(gStore, gParams)
    /\ gStatus' = "running"
    /\ UNCHANGED <<gMode, gStore, gParams, gFrontier, gHop, gResult>>

\* one step of the selection: the best candidate is selected and, when its
\* depth is below the depth asked, its adjacent nodes join the pool
MmrSelect ==
    /\ gMode = "mmr"
    /\ gStatus = "running"
    /\ Len(gResult) < gParams.k
    /\ Eligible(gStore, gParams, gPool, gResult) # {}
    /\ LET c == gPool[Best(gStore, gParams, gPool, gResult)]
       IN  /\ gResult' = Append(gResult, c.id)
           /\ gPool' = IF c.depth < gParams.depth
                        THEN AddCandidates(gPool,
                                 TopAdjacent(gStore, c.id, gParams.adjacent_k),
                                 c.depth + 1)
                        ELSE gPool
    /\ UNCHANGED <<gMode, gStore, gParams, gStatus, gFrontier, gHop>>

\* k nodes are selected or no candidate is left to choose
MmrEnd ==
    /\ gMode = "mmr"
    /\ gStatus = "running"
    /\ \/ Len(gResult) = gParams.k
       \/ Eligible(gStore, gParams, gPool, gResult) = {}
    /\ gStatus' = "done"
    /\ UNCHANGED <<gMode, gStore, gParams, gFrontier, gHop, gPool, gResult>>

InitStore ==
    /\ BridgeIdle
    /\ AddIdle
    /\ op = "none" /\ elems = <<>> /\ failStart = FALSE /\ failPull = -1
    /\ AdapterIdle
    /\ SearchIdle
    /\ InitTraversal \/ InitMmr

NextStore ==
    \/ TraversalStart /\ UNCHANGED <<bridgeVars, adapterVars, searchVars, addVars>>
    \/ TraversalExpand /\ UNCHANGED <<bridgeVars, adapterVars, searchVars, addVars>>
    \/ TraversalEnd /\ UNCHANGED <<bridgeVars, adapterVars, searchVars, addVars>>
    \/ MmrStart /\ UNCHANGED <<bridgeVars, adapterVars, searchVars, addVars>>
    \/ MmrSelect /\ UNCHANGED <<bridgeVars, adapterVars, searchVars, addVars>>
    \/ MmrEnd /\ UNCHANGED <<bridgeVars, adapterVars, searchVars, addVars>>

SpecStore == InitStore /\ [][NextStore]_vars

\* ------------------------------------------------------------------------
\* Claims about traversal_search and mmr_traversal_search
\* ------------------------------------------------------------------------

\* C15: at every point of an mmr_traversal_search, for every store and
\* every choice of the parameters, at most k nodes are yielded and every
\* node yielded has a similarity to the query of at least score_threshold.
C15_MmrAtMostKAboveThreshold ==
    gMode = "mmr" =>
        /\ Len(gResult) <= gParams.k
        /\ \A i \in 1..Len(gResult) :
               gStore.sim[gResult[i]] >= gParams.score_threshold

\* k nodes were selected while a further candidate could have been chosen
\* and another lies below the threshold
C15_Witness ==
    /\ gMode = "mmr"
    /\ gStatus = "done"
    /\ gParams.score_threshold = 2
    /\ Len(gResult) = gParams.k
    /\ Eligible(gStore, gParams, gPool, gResult) # {}
    /\ \E i \in 1..Len(gPool) :
          gStore.sim[gPool[i].id] < gParams.score_threshold

\* C16: no node id is yielded twice by one traversal_search or
\* mmr_traversal_search, also when a node is reached from the similarity
\* search and again along edges, or along a cycle of edges.
C16_NoNodeTwice ==
    gMode \in {"traversal", "mmr"} =>
        \A i, j \in 1..Len(gResult) : i # j => gResult[i] # gResult[j]

\* two nodes of the similarity search with edges in both directions
\* between them, expanded twice
C16_Witness ==
    /\ gMode = "traversal"
    /\ gStatus = "done"
    /\ gHop = 2
    /\ Len(gResult) = 3
    /\ gParams.k = 2
    /\ Edge(gStore, gResult[1], gResult[2])
    /\ Edge(gStore, gResult[2], gResult[1])
    /\ Edge(gStore, gResult[3], gResult[1])

\* an edge A -> B as the claim words it
MatchingLinks(st, a, b) ==
    \E la \in st.links[a], lb \in st.links[b] :
        /\ la.direction # "incoming"
        /\ lb.direction # "outgoing"
        /\ <<la.kind, la.tag>> = <<lb.kind, lb.tag>>

\* the sequences of at most n + 1 ids
WalksUpTo(n) == UNION {[1..m -> IdSet] : m \in 1..(n + 1)}

\* the nodes that a walk of at most d edges reaches from a node of S
WithinHops(st, S, d) ==
    {b \in IdSet :
        \E w \in WalksUpTo(d) :
            /\ w[1] \in S
            /\ w[Len(w)] = b
            /\ \A i \in 1..(Len(w) - 1) : MatchingLinks(st, w[i], w[i + 1])}

\* the store of the scenario: A with an outgoing hyperlink "u", ranked
\* first, and B with an incoming hyperlink "u"
ScenarioStore ==
    /\ gStore.links["A"] = {Link("hyperlink", "outgoing", "u")}
    /\ gStore.links["B"] = {Link("hyperlink", "incoming", "u")}
    /\ gStore.links["C"] = {}
    /\ gStore.sim["A"] = 2 /\ gStore.sim["B"] = 1 /\ gStore.sim["C"] = 1

InitAddTexts ==
    /\ BridgeIdle
    /\ SearchIdle
    /\ StoreIdle
    /\ op = "none" /\ elems = <<>> /\ failStart = FALSE /\ failPull = -1
    /\ InitTexts
    /\ stored = <<>>
    /\ \E by \in {"add_texts", "aadd_texts"} :
          addResult = [by |-> by, state |-> "pending", value |-> <<>>]

\* The backend's add_nodes asks the stream for its next node, which resumes
\* _texts_to_nodes: a node yielded is in the backend's hands; a ValueError
\* raised goes through add_nodes and list(...) (the async comprehension in
\* aadd_texts) to the caller; at the end of the stream the call returns the
\* ids of the nodes added.
AddNodesNext ==
    /\ addResult.state = "pending"
    /\ TextsToNodesNext
    /\ stored' = nodes'
    /\ addResult' =
          CASE status' = "error" ->
                   [addResult EXCEPT !.state = "raised",
                                     !.value = <<"ValueError", error'>>]
            [] status' = "done" ->
                   [addResult EXCEPT !.state = "returned",
                                     !.value = [i \in 1..Len(nodes') |-> nodes'[i].id]]
            [] OTHER -> addResult

NextAddTexts ==
    \/ AddNodesNext /\ UNCHANGED <<bridgeVars, searchVars, storeVars>>

SpecAddTexts == InitAddTexts /\ [][NextAddTexts]_vars

\* ------------------------------------------------------------------------
\* Claims about add_texts and aadd_texts
\* ------------------------------------------------------------------------

LengthsDisagree ==
    \/ Supplied(metadatas) /\ Len(metadatas.items) # Len(texts)
    \/ Supplied(ids) /\ Len(ids.items) # Len(texts)

\* the length of the shortest of texts and the sequences supplied
CommonPrefix ==
    LET lens == {Len(texts)}
                  \cup (IF Supplied(metadatas) THEN {Len(metadatas.items)} ELSE {})
                  \cup (IF Supplied(ids) THEN {Len(ids.items)} ELSE {})
    IN  CHOOSE n \in lens : \A m \in lens : n <= m

\* the backend holds a node for each of the first n texts, in order
StoredPrefix(n) ==
    /\ Len(stored) = n
    /\ \A i \in 1..n : stored[i].text = texts[i]

\* C18: add_texts and aadd_texts validate the lengths lazily: when the
\* lengths of texts, metadatas and ids disagree, the backend never holds more
\* than the common prefix, the call ends in the ValueError, and when it is
\* raised the backend holds a node for every position of the common prefix
\* (every text, when the other sequences are only longer).
C18_LazyArityValidation ==
    (addResult.by \in {"add_texts", "aadd_texts"} /\ LengthsDisagree) =>
        /\ Len(stored) <= CommonPrefix
        /\ addResult.state # "pending" =>
               /\ addResult.state = "raised"
               /\ addResult.value[1] = "ValueError"
               /\ StoredPrefix(CommonPrefix)

\* every argument that is a list has an element
NoEmptyList ==
    /\ metadatas.kind = "list" => metadatas.items # <<>>
    /\ ids.kind = "list" => ids.items # <<>>

\* the same, for arguments none of which is an empty list
LazyArityValidationOfNonEmptyLists ==
    NoEmptyList => C18_LazyArityValidation

\* a ValueError raised after the backend was handed a node
PartlyAdded ==
    /\ addResult.state = "raised"
    /\ stored # <<>>
    /\ Len(stored) < Len(texts)

====
